---------------------------- MODULE Spec2Model ----------------------------
(***************************************************************************)
(* Payment-event reconciliation of the homehive backend:                   *)
(*   0011_fetch_stripe_webhook.js   (src/unnamed/part_006)                 *)
(*   0012_update_stripe_payments.js (src/unnamed/part_001)                 *)
(*                                                                         *)
(* JavaScript objects are functions from field names to values.  A field   *)
(* that is absent is not in the DOMAIN; a field that is present with the   *)
(* value undefined maps to Undefined, and JSON.stringify drops it.         *)
(***************************************************************************)
EXTENDS Integers, Sequences, FiniteSets, TLC

VARIABLES env, clock, store, deliveries, calls, scanEnv, tenants, scan

vars == <<env, clock, store, deliveries, calls, scanEnv, tenants, scan>>

\* the state of the webhook path, and the state of the requests made to the
\* internal endpoints directly
webhookVars == <<clock, deliveries>>
internalVars == <<calls, scanEnv, tenants, scan>>

(***************************************************************************)
(* Bounds of the model.                                                    *)
(***************************************************************************)
MaxDeliveries == 2
MaxClock == 1
MaxCalls == 2
MaxTenants == 2

(***************************************************************************)
(* JavaScript values.                                                      *)
(***************************************************************************)
Undefined == "undefined"
Null == "null"

Get(o, f) == IF f \in DOMAIN o THEN o[f] ELSE Undefined

Truthy(v) == v \notin {Undefined, Null, ""}

\* JSON.stringify of a flat object: own fields whose value is undefined are
\* dropped, null is kept.  The wire form is the remaining object.
JSONStringify(o) == [f \in {g \in DOMAIN o : o[g] # Undefined} |-> o[f]]

\* JSON.parse of a wire form gives an object with exactly the fields sent.
JSONParse(s) == [f \in DOMAIN s |-> s[f]]

\* dayjs().toISOString() at clock value t
toISOString(t) == "T" \o ToString(t)

\* Object.keys(o)[0]; an object's keys are kept as the sequence of its keys
FirstKey(keys) == IF Len(keys) = 0 THEN Undefined ELSE keys[1]

(***************************************************************************)
(* Firestore set(data, {merge: true}) on a flat document.                  *)
(***************************************************************************)
\* set(data) without {merge: true}: the document is replaced
ReplaceSet(coll, key, data) ==
  [k \in DOMAIN coll \cup {key} |-> IF k = key THEN data ELSE coll[k]]

\* coll is one collection: a function from the keys of its documents to them
MergeSet(coll, key, data) ==
  LET merged == IF key \in DOMAIN coll
                THEN [f \in DOMAIN coll[key] \cup DOMAIN data |->
                        IF f \in DOMAIN data THEN data[f] ELSE coll[key][f]]
                ELSE data
  IN  [k \in DOMAIN coll \cup {key} |-> IF k = key THEN merged ELSE coll[k]]

Collections == {"rents", "rentalPayments"}

\* a doc() that only refuses a missing path
ValidDocPathDefined(v) == v # Undefined

\* a doc() that takes whatever it is given for a path
ValidDocPathAny(v) == TRUE

\* db.collection(c).doc(path) throws unless path is a non-empty string
ValidDocPath(v) == Truthy(v)

(***************************************************************************)
(* Provider events delivered to the webhook.                               *)
(***************************************************************************)
PaymentIntentTypes ==
  {"payment_intent.created", "payment_intent.processing",
   "payment_intent.succeeded"}

CheckoutTypes ==
  {"checkout.session.completed", "checkout.session.async_payment_succeeded",
   "checkout.session.async_payment_failed"}

ChargeTypes ==
  {"charge.failed", "charge.pending", "charge.succeeded", "charge.updated"}

RecognizedTypes == PaymentIntentTypes \cup CheckoutTypes \cup ChargeTypes

\* metadata attached to a checkout session by 0007_create_stripe_checkout_session
SessionMetadata ==
  [tenantId |-> "tenant_1", propertyId |-> "prop_1",
   propertyOwnerId |-> "owner_1", rentMonth |-> "2025-06",
   rentAmount |-> "150000", additionalCharges |-> "0",
   initialLateFee |-> "7500", dailyLateFee |-> "1000",
   customer_email |-> "a@b.com"]

\* metadata that does not come from this application: no tenantId
ForeignMetadata == [customer_email |-> "a@b.com", rentMonth |-> "2025-06"]

PaymentIntentObject(st) ==
  [id |-> "pi_1", amount |-> "158500", status |-> st, metadata |-> << >>]

\* a charge carries the metadata object of its payment (md)
ChargeObject(pi, st, md) ==
  [id |-> "ch_1", payment_intent |-> pi, amount |-> "158500", status |-> st,
   payment_method |-> "pm_1", payment_method_details |-> "card",
   receipt_url |-> "https://pay.stripe.com/receipts/1", metadata |-> md]

SessionObject(st, md) ==
  [id |-> "cs_1", payment_intent |-> "pi_1", status |-> st, metadata |-> md,
   payment_method_options |-> <<"card">>]

SessionNoOptions(st, md) ==
  [id |-> "cs_1", payment_intent |-> "pi_1", status |-> st, metadata |-> md]

Event(t, o) == [type |-> t, object |-> o]

Events ==
  { Event("payment_intent.succeeded", PaymentIntentObject("succeeded")),
    Event("charge.succeeded", ChargeObject("pi_1", "succeeded", SessionMetadata)),
    Event("charge.failed", ChargeObject(Null, "failed", << >>)),
    Event("checkout.session.completed", SessionObject("complete", SessionMetadata)),
    Event("checkout.session.async_payment_succeeded",
          SessionObject("complete", ForeignMetadata)),
    Event("checkout.session.async_payment_failed",
          SessionNoOptions("open", SessionMetadata)),
    Event("customer.created", [id |-> "cus_1"]) }

ValidSig == "t=1,v1=good"
Signatures == {ValidSig, "t=1,v1=bad", Undefined}

(***************************************************************************)
(* 0011_fetch_stripe_webhook.js                                            *)
(***************************************************************************)
\* stripe.webhooks.constructEvent(body, sig, secret): the verified event, or
\* an error whose message tells a missing header from a wrong signature
constructEvent(body, sig) ==
  IF sig = ValidSig THEN [ok |-> TRUE, event |-> body]
  ELSE IF sig = Undefined
  THEN [ok |-> FALSE, message |-> "No stripe-signature header value was provided."]
  ELSE [ok |-> FALSE, message |-> "No signatures found matching the expected signature for payload."]

\* the id a charge event is recorded under: a slip that takes the charge's own id
chargeIdOwn(eventDetails) == Get(eventDetails, "id")

\* the id a charge event is recorded under ("payment_intent is unique accessor")
chargeId(eventDetails) == Get(eventDetails, "payment_intent")

\* a default case that falls through to the recorder
updateStripePaymentHandlerFallThrough(stripeEventType, eventDetails) ==
  IF stripeEventType \in PaymentIntentTypes
  THEN << [id |-> Get(eventDetails, "id"),
           amount |-> Get(eventDetails, "amount"),
           status |-> Get(eventDetails, "status")] >>
  ELSE IF stripeEventType = "charge.succeeded"
  THEN << [id |-> chargeId(eventDetails),
           amount |-> Get(eventDetails, "amount"),
           status |-> Get(eventDetails, "status"),
           paymentMethod |-> Get(eventDetails, "payment_method"),
           paymentMethodDetails |-> Get(eventDetails, "payment_method_details"),
           recieptURL |-> Get(eventDetails, "receipt_url")] >>
  ELSE IF stripeEventType \in ChargeTypes
  THEN << [id |-> chargeId(eventDetails),
           amount |-> Get(eventDetails, "amount"),
           status |-> Get(eventDetails, "status"),
           paymentMethod |-> Get(eventDetails, "payment_method"),
           paymentMethodDetails |-> Get(eventDetails, "payment_method_details")] >>
  ELSE << eventDetails >>

\* updateStripePaymentHandler: <<data>> when updateDb(type, data) is called,
\* <<>> when the event type matches no case
updateStripePaymentHandler(stripeEventType, eventDetails) ==
  IF stripeEventType \in PaymentIntentTypes
  THEN << [id |-> Get(eventDetails, "id"),
           amount |-> Get(eventDetails, "amount"),
           status |-> Get(eventDetails, "status")] >>
  ELSE IF stripeEventType \in CheckoutTypes
  THEN << eventDetails >>
  ELSE IF stripeEventType = "charge.succeeded"
  THEN << [id |-> chargeId(eventDetails),
           amount |-> Get(eventDetails, "amount"),
           status |-> Get(eventDetails, "status"),
           paymentMethod |-> Get(eventDetails, "payment_method"),
           paymentMethodDetails |-> Get(eventDetails, "payment_method_details"),
           recieptURL |-> Get(eventDetails, "receipt_url")] >>
  ELSE IF stripeEventType \in ChargeTypes
  THEN << [id |-> chargeId(eventDetails),
           amount |-> Get(eventDetails, "amount"),
           status |-> Get(eventDetails, "status"),
           paymentMethod |-> Get(eventDetails, "payment_method"),
           paymentMethodDetails |-> Get(eventDetails, "payment_method_details")] >>
  ELSE << >>

\* draftData of the metadata branch of updateDb
MetadataDraft(stripeEventType, data, now) ==
  LET md == data["metadata"] IN
  [tenantId |-> Get(md, "tenantId"),
   tenantEmail |-> Get(md, "customer_email"),
   propertyId |-> Get(md, "propertyId"),
   propertyOwnerId |-> Get(md, "propertyOwnerId"),
   rentMonth |-> Get(md, "rentMonth"),
   rentAmount |-> Get(md, "rentAmount"),
   additionalCharges |-> Get(md, "additionalCharges"),
   initialLateFee |-> Get(md, "initialLateFee"),
   dailyLateFee |-> Get(md, "dailyLateFee"),
   stripePaymentIntentID |-> Get(data, "payment_intent"),
   method |-> "stripe",
   status |-> Get(data, "status"),
   stripeEventType |-> stripeEventType,
   paymentMethodType |-> FirstKey(data["payment_method_options"]),
   createdBy |-> Get(md, "tenantId"),
   createdOn |-> toISOString(now),
   updatedBy |-> Get(md, "tenantId"),
   updatedOn |-> toISOString(now)]

\* draftData of the branch without metadata
BareDraft(stripeEventType, data, now) ==
  [stripePaymentIntentID |-> Get(data, "id"),
   method |-> "stripe",
   status |-> Get(data, "status"),
   amount |-> Get(data, "amount"),
   stripeEventType |-> stripeEventType,
   createdOn |-> toISOString(now),
   updatedOn |-> toISOString(now)]

\* an updateDb that reads the payment method with optional chaining and so
\* posts the record of a session without payment_method_options
updateDbTolerant(stripeEventType, data, now) ==
  IF ~Truthy(stripeEventType) \/ DOMAIN data = {}
  THEN [kind |-> "null"]
  ELSE IF "metadata" \in DOMAIN data
  THEN [kind |-> "fetch", branch |-> "metadata", key |-> Undefined,
        body |-> JSONStringify(MetadataDraft(stripeEventType,
                   data @@ [payment_method_options |-> << >>], now))]
  ELSE [kind |-> "fetch", branch |-> "bare", key |-> Undefined,
        body |-> JSONStringify(BareDraft(stripeEventType, data, now))]

\* updateDb up to its first await: it returns null on the guard, lands in its
\* catch when Object.keys(data.payment_method_options) throws, or has issued
\* the POST to 0012_update_stripe_payments (no key in the URL)
updateDb(stripeEventType, data, now) ==
  IF ~Truthy(stripeEventType) \/ DOMAIN data = {}
  THEN [kind |-> "null"]
  ELSE IF "metadata" \in DOMAIN data
  THEN IF "payment_method_options" \notin DOMAIN data
       THEN [kind |-> "caught"]
       ELSE [kind |-> "fetch", branch |-> "metadata", key |-> Undefined,
             body |-> JSONStringify(MetadataDraft(stripeEventType, data, now))]
  ELSE [kind |-> "fetch", branch |-> "bare", key |-> Undefined,
        body |-> JSONStringify(BareDraft(stripeEventType, data, now))]

\* an acknowledgement that waits for updateDb and surfaces its failure
acknowledgeAwaited(u) ==
  IF u.kind = "caught"
  THEN [statusCode |-> 500, body |-> "{\"received\":false}"]
  ELSE [statusCode |-> 200, body |-> "{\"received\":true}"]

\* the handler's return after the dispatch; u is what updateDb did so far,
\* which the handler never looks at
acknowledge(u) == [statusCode |-> 200, body |-> "{\"received\":true}"]

\* a handler whose catch logs the verification failure and goes on: the
\* event is undefined, so no case of the classifier matches
handlerResultNoGate(body, sig, now) ==
  LET ce   == constructEvent(body, sig)
      base == [sig |-> sig, time |-> now,
               event |-> IF ce.ok THEN << ce.event >> ELSE << >>,
               request |-> << >>, update |-> << >>, wrote |-> << >>,
               email |-> << >>, emailDone |-> FALSE]
  IN
  IF ~ce.ok
  THEN base @@ [response |-> acknowledge([kind |-> "notcalled"]),
                classified |-> TRUE, recorder |-> "notcalled", pc |-> "done"]
  ELSE
    LET call == updateStripePaymentHandler(ce.event.type, ce.event.object) IN
    IF Len(call) = 0
    THEN base @@ [response |-> acknowledge([kind |-> "notcalled"]),
                  classified |-> TRUE, recorder |-> "notcalled", pc |-> "done"]
    ELSE
      LET u == updateDb(ce.event.type, call[1], now) IN
      IF u.kind \in {"null", "caught"}
      THEN base @@ [response |-> acknowledge(u), classified |-> TRUE,
                    recorder |-> IF u.kind = "null" THEN "null" ELSE "false",
                    pc |-> "done"]
      ELSE [base EXCEPT !.request = << u >>]
             @@ [response |-> acknowledge(u), classified |-> TRUE,
                 recorder |-> "pending", pc |-> "posted"]

\* The webhook handler runs from its entry to its return in one turn of the
\* event loop: neither updateStripePaymentHandler nor updateDb is awaited.
\* The result is the record kept for this delivery.
\*   event      : <<e>> the event constructEvent returned
\*   classified : updateStripePaymentHandler was invoked
\*   recorder   : "notcalled", or the state of updateDb's promise:
\*                "pending", "null", "true", "false"
\*   request    : <<r>> the POST issued to the update-payment endpoint
\*   update     : <<r>> how the update-payment handler ended
\*   wrote      : <<w>> the document written for this delivery
\*   email      : <<m>> the email-send request issued for this delivery
\*   emailDone  : the email-send request has settled
handlerResult(body, sig, now) ==
  LET ce   == constructEvent(body, sig)
      base == [sig |-> sig, time |-> now,
               event |-> IF ce.ok THEN << ce.event >> ELSE << >>,
               request |-> << >>, update |-> << >>, wrote |-> << >>,
               email |-> << >>, emailDone |-> FALSE]
  IN
  IF ~ce.ok
  THEN base @@ [response |-> [statusCode |-> 400,
                              body |-> "Webhook Error: " \o ce.message],
                classified |-> FALSE, recorder |-> "notcalled", pc |-> "done"]
  ELSE
    LET call == updateStripePaymentHandler(ce.event.type, ce.event.object) IN
    IF Len(call) = 0
    THEN base @@ [response |-> acknowledge([kind |-> "notcalled"]),
                  classified |-> TRUE, recorder |-> "notcalled", pc |-> "done"]
    ELSE
      LET u == updateDb(ce.event.type, call[1], now) IN
      IF u.kind = "null"
      THEN base @@ [response |-> acknowledge(u), classified |-> TRUE,
                    recorder |-> "null", pc |-> "done"]
      ELSE IF u.kind = "caught"
      THEN base @@ [response |-> acknowledge(u), classified |-> TRUE,
                    recorder |-> "false", pc |-> "done"]
      ELSE [base EXCEPT !.request = << u >>]
             @@ [response |-> acknowledge(u), classified |-> TRUE,
                 recorder |-> "pending", pc |-> "posted"]

(***************************************************************************)
(* 0012_update_stripe_payments.js                                          *)
(***************************************************************************)
\* a check that only asks for some key to be present
UnauthorizedMissingOnly(key) ==
  ~Truthy(env.isLocalDevTestEnv) /\ key = Undefined

\* the key check at the head of the handler; key is the request's
\* queryStringParameters.key
Unauthorized(key) ==
  ~Truthy(env.isLocalDevTestEnv) /\ key # env.AdminAuthorizedKey

\* a marker test that takes any parsed record for a metadata record
containsMetadataAny(data) == DOMAIN data # {}

containsMetadata(data) == Truthy(Get(data, "createdBy"))

\* routing on the tenant's email instead of createdBy
draftCollectionByEmail(data) ==
  IF Truthy(Get(data, "tenantEmail")) THEN "rents" ELSE "rentalPayments"

\* a handler with a single partition
draftCollectionRents(data) == "rents"

draftCollection(data) ==
  IF containsMetadata(data) THEN "rents" ELSE "rentalPayments"

\* the notification text built from the record
emailText(data) ==
  "Rent Month: " \o Get(data, "rentMonth")
    \o " Rent Amount: $" \o Get(data, "rentAmount")
    \o " Additional Charges: $" \o Get(data, "additionalCharges")
    \o " Initial Late Fee: $" \o Get(data, "initialLateFee")
    \o " Daily Late Fee: $" \o Get(data, "dailyLateFee")
    \o " Current payment status: " \o Get(data, "status")

\* body of the POST to 0001_send_email_fn
emailRequest(data) ==
  JSONStringify([to |-> Get(data, "customer_email"),
                 subject |-> "Notification of payment attached.",
                 text |-> emailText(data)])

Returned(code, body) == [kind |-> "returned", statusCode |-> code, body |-> body]
Thrown == [kind |-> "thrown"]
ReturnedUndefined == [kind |-> "undefined"]

\* what updateDb returns once its fetch resolved with an ok response
updateDbOk(req) == IF req.branch = "metadata" THEN "true" ELSE "false"

(***************************************************************************)
(* State.                                                                  *)
(*   env        : the deployment's environment variables                   *)
(*   clock      : the wall clock read by dayjs()                           *)
(*   store      : Firestore, collection -> (document key -> document)      *)
(*   deliveries : one record per webhook request received, in order        *)
(*   calls      : one record per request posted to update-payment directly *)
(*   scanEnv    : the environment of the reminder function                 *)
(*   tenants    : the active tenants the reminder scan finds in Firestore  *)
(*   scan       : the reminder scan in progress                            *)
(***************************************************************************)
\* no reminder scan has run
IdleScan ==
  [pc |-> "idle", version |-> "", key |-> Undefined, next |-> 0, reads |-> 0,
   emails |-> << >>, response |-> << >>, cause |-> ""]

\* A deployment sets the admin key; VITE_DEVELOPMENT_ENV is set in local
\* development only.  Firestore starts without payment documents.
Init ==
  /\ env \in [isLocalDevTestEnv : {Undefined, "true"},
              AdminAuthorizedKey : {"admin-key"}]
  /\ clock = 0
  /\ store = [c \in Collections |-> << >>]
  /\ deliveries = << >>
  /\ calls = << >>
  /\ scanEnv = [isLocalDevTestEnv |-> FALSE, AdminAuthorizedKey |-> "admin-key",
                unhandledRejections |-> "throw"]
  /\ tenants = << >>
  /\ scan = IdleScan

\* the provider (or anyone) posts body with signature header sig
Webhook(body, sig) ==
  /\ Len(deliveries) < MaxDeliveries
  /\ deliveries' = Append(deliveries, handlerResult(body, sig, clock))
  /\ UNCHANGED <<env, clock, store, internalVars>>

\* a handler that requests the notification before it writes the record
UpdatePaymentEmailFirst(i, dbOk) ==
  LET d    == deliveries[i]
      req  == d.request[1]
      data == JSONParse(req.body)
      id   == Get(data, "stripePaymentIntentID")
      coll == draftCollection(data)
  IN
  /\ d.pc = "posted"
  /\ IF Unauthorized(req.key)
     THEN /\ deliveries' = [deliveries EXCEPT ![i] =
                 [d EXCEPT !.update = << Returned(401, "Unauthorized") >>,
                           !.recorder = "false", !.pc = "done"]]
          /\ UNCHANGED store
     ELSE IF ~ValidDocPath(id) \/ ~dbOk
     THEN /\ deliveries' = [deliveries EXCEPT ![i] =
                 [d EXCEPT !.update = << Thrown >>,
                           !.email = IF containsMetadata(data)
                                     THEN << emailRequest(data) >> ELSE << >>,
                           !.recorder = "false", !.pc = "done"]]
          /\ UNCHANGED store
     ELSE /\ store' = [store EXCEPT ![coll] = MergeSet(@, id, data)]
          /\ IF containsMetadata(data)
             THEN deliveries' = [deliveries EXCEPT ![i] =
                    [d EXCEPT !.wrote = << [collection |-> coll, key |-> id] >>,
                              !.email = << emailRequest(data) >>,
                              !.pc = "emailing"]]
             ELSE deliveries' = [deliveries EXCEPT ![i] =
                    [d EXCEPT !.wrote = << [collection |-> coll, key |-> id] >>,
                              !.update = << Returned(200, [success |-> TRUE, id |-> id]) >>,
                              !.recorder = updateDbOk(req), !.pc = "done"]]
  /\ UNCHANGED <<env, clock, internalVars>>

\* the POST of delivery i reaches the update-payment handler, which runs up
\* to its return or, for a record with createdBy, up to the email fetch;
\* dbOk tells whether Firestore accepts the write
UpdatePayment(i, dbOk) ==
  LET d    == deliveries[i]
      req  == d.request[1]
      data == JSONParse(req.body)
      id   == Get(data, "stripePaymentIntentID")
      coll == draftCollection(data)
  IN
  /\ d.pc = "posted"
  /\ IF Unauthorized(req.key)
     THEN /\ deliveries' = [deliveries EXCEPT ![i] =
                 [d EXCEPT !.update = << Returned(401, "Unauthorized") >>,
                           !.recorder = "false", !.pc = "done"]]
          /\ UNCHANGED store
     ELSE IF ~ValidDocPath(id) \/ ~dbOk
     THEN /\ deliveries' = [deliveries EXCEPT ![i] =
                 [d EXCEPT !.update = << Thrown >>,
                           !.recorder = "false", !.pc = "done"]]
          /\ UNCHANGED store
     ELSE /\ store' = [store EXCEPT ![coll] = MergeSet(@, id, data)]
          /\ IF containsMetadata(data)
             THEN deliveries' = [deliveries EXCEPT ![i] =
                    [d EXCEPT !.wrote = << [collection |-> coll, key |-> id] >>,
                              !.email = << emailRequest(data) >>,
                              !.pc = "emailing"]]
             ELSE deliveries' = [deliveries EXCEPT ![i] =
                    [d EXCEPT !.wrote = << [collection |-> coll, key |-> id] >>,
                              !.update = << Returned(200, [success |-> TRUE, id |-> id]) >>,
                              !.recorder = updateDbOk(req), !.pc = "done"]]
  /\ UNCHANGED <<env, clock, internalVars>>

\* a handler that takes the record back when the notification fails
EmailSettleUndo(i, outcome) ==
  LET d   == deliveries[i]
      req == d.request[1]
      w   == d.wrote[1]
  IN
  /\ d.pc = "emailing"
  /\ deliveries' = [deliveries EXCEPT ![i] =
       [d EXCEPT !.emailDone = TRUE,
                 !.update = IF outcome = "ok"
                            THEN << Returned(200, [success |-> TRUE, id |-> w.key]) >>
                            ELSE IF outcome = "notok" THEN << ReturnedUndefined >>
                            ELSE << Thrown >>,
                 !.recorder = IF outcome = "ok" THEN updateDbOk(req) ELSE "false",
                 !.pc = "done"]]
  /\ store' = IF outcome = "ok" THEN store
              ELSE [store EXCEPT ![w.collection] =
                      [k \in DOMAIN @ \ {w.key} |-> @[k]]]
  /\ UNCHANGED <<env, clock, internalVars>>

\* the email-send request of delivery i settles: an ok response, a response
\* that is not ok, or a transport error
EmailSettle(i, outcome) ==
  LET d   == deliveries[i]
      req == d.request[1]
  IN
  /\ d.pc = "emailing"
  /\ deliveries' = [deliveries EXCEPT ![i] =
       [d EXCEPT !.emailDone = TRUE,
                 !.update = IF outcome = "ok"
                            THEN << Returned(200, [success |-> TRUE, id |-> d.wrote[1].key]) >>
                            ELSE IF outcome = "notok" THEN << ReturnedUndefined >>
                            ELSE << Thrown >>,
                 !.recorder = IF outcome = "ok" THEN updateDbOk(req) ELSE "false",
                 !.pc = "done"]]
  /\ UNCHANGED <<env, clock, store, internalVars>>

\* the POST of delivery i never reaches the endpoint: fetch rejects and
\* updateDb lands in its catch
TransportFail(i) ==
  LET d == deliveries[i] IN
  /\ d.pc = "posted"
  /\ deliveries' = [deliveries EXCEPT ![i] =
       [d EXCEPT !.recorder = "false", !.pc = "done"]]
  /\ UNCHANGED <<env, clock, store, internalVars>>

Tick ==
  /\ clock < MaxClock
  /\ clock' = clock + 1
  /\ UNCHANGED <<env, store, deliveries, internalVars>>

Next ==
  \/ \E body \in Events, sig \in Signatures : Webhook(body, sig)
  \/ \E i \in 1..Len(deliveries), dbOk \in BOOLEAN : UpdatePayment(i, dbOk)
  \/ \E i \in 1..Len(deliveries), o \in {"ok", "notok", "error"} : EmailSettle(i, o)
  \/ \E i \in 1..Len(deliveries) : TransportFail(i)
  \/ Tick

Spec == Init /\ [][Next]_vars

(***************************************************************************)
(* Requests posted to 0012_update_stripe_payments directly (an operator,   *)
(* a script, anyone who knows the URL), with or without the key.           *)
(***************************************************************************)
Keys == {Undefined, "wrong-key", "admin-key"}

\* request bodies: << >> is a body JSON.parse throws on, << r >> the JSON
\* text of record r
TenantRecord ==
  [stripePaymentIntentID |-> "pi_1", createdBy |-> "tenant-1",
   customer_email |-> "a@b.com", status |-> "paid"]
BareRecord == [stripePaymentIntentID |-> "pi_1", status |-> "succeeded"]
EmptyCreatedByRecord ==
  [stripePaymentIntentID |-> "pi_2", createdBy |-> "", status |-> "open"]
NoIdRecord == [createdBy |-> "tenant-1", status |-> "paid"]

DirectBodies ==
  { << >>, << TenantRecord >>, << BareRecord >>, << EmptyCreatedByRecord >>,
    << NoIdRecord >> }

Cs == 1..Len(calls)

\* one run of the handler for a direct request, up to its return, its throw
\* or the await of the email fetch; dbOk tells whether Firestore accepts the
\* write
DirectUpdate(key, body, dbOk) ==
  LET call == [key |-> key, body |-> body, dbOk |-> dbOk, update |-> << >>,
               wrote |-> << >>, email |-> << >>, emailDone |-> FALSE,
               pc |-> "done"]
  IN
  /\ Len(calls) < MaxCalls
  /\ IF Unauthorized(key)
     THEN /\ calls' = Append(calls,
                 [call EXCEPT !.update = << Returned(401, "Unauthorized") >>])
          /\ UNCHANGED store
     ELSE IF Len(body) = 0
     THEN /\ calls' = Append(calls, [call EXCEPT !.update = << Thrown >>])
          /\ UNCHANGED store
     ELSE
       LET data == JSONParse(body[1])
           id   == Get(data, "stripePaymentIntentID")
           coll == draftCollection(data)
       IN
       IF ~ValidDocPath(id) \/ ~dbOk
       THEN /\ calls' = Append(calls, [call EXCEPT !.update = << Thrown >>])
            /\ UNCHANGED store
       ELSE /\ store' = [store EXCEPT ![coll] = MergeSet(@, id, data)]
            /\ IF containsMetadata(data)
               THEN calls' = Append(calls,
                      [call EXCEPT !.wrote = << [collection |-> coll, key |-> id] >>,
                                   !.email = << emailRequest(data) >>,
                                   !.pc = "emailing"])
               ELSE calls' = Append(calls,
                      [call EXCEPT !.wrote = << [collection |-> coll, key |-> id] >>,
                                   !.update = << Returned(200, [success |-> TRUE,
                                                                id |-> id]) >>])
  /\ UNCHANGED <<env, scanEnv, tenants, scan, webhookVars>>

\* the email-send request of direct call c settles
DirectEmailSettle(c, outcome) ==
  /\ calls[c].pc = "emailing"
  /\ calls' = [calls EXCEPT ![c] =
       [@ EXCEPT !.emailDone = TRUE,
                 !.update = IF outcome = "ok"
                            THEN << Returned(200, [success |-> TRUE,
                                                   id |-> calls[c].wrote[1].key]) >>
                            ELSE IF outcome = "notok" THEN << ReturnedUndefined >>
                            ELSE << Thrown >>,
                 !.pc = "done"]]
  /\ UNCHANGED <<env, store, scanEnv, tenants, scan, webhookVars>>

\* a deployment may or may not configure VITE_SITE_ADMIN_AUTHORIZED_KEY
InitDirect ==
  /\ env \in [isLocalDevTestEnv : {Undefined, "true"},
              AdminAuthorizedKey : {"admin-key", Undefined}]
  /\ clock = 0
  /\ store = [c \in Collections |-> << >>]
  /\ deliveries = << >>
  /\ calls = << >>
  /\ scanEnv = [isLocalDevTestEnv |-> FALSE, AdminAuthorizedKey |-> "admin-key",
                unhandledRejections |-> "throw"]
  /\ tenants = << >>
  /\ scan = IdleScan

NextDirect ==
  \/ \E key \in Keys, body \in DirectBodies, dbOk \in BOOLEAN :
       DirectUpdate(key, body, dbOk)
  \/ \E c \in Cs, o \in {"ok", "notok", "error"} : DirectEmailSettle(c, o)

SpecDirect == InitDirect /\ [][NextDirect]_vars

(***************************************************************************)
(* 0010_send_automatic_reminders.js, in its two versions: the one under    *)
(* netlify/functions awaits the property and rent queries of each tenant   *)
(* inside the loop, the one in part_004 calls fetchPropertyDetails and     *)
(* fetchUpcomingRentDetails without awaiting them.                         *)
(***************************************************************************)
Versions == {"functions/0010", "part_004"}

\* standardReminderSettings.GENERAL
reminders == <<7, 3, 1, 0>>

includes(list, d) == \E i \in DOMAIN list : list[i] = d

\* An active tenant as the scan sees it: propertyFound tells whether the
\* property query finds a property of that id renting to the tenant, rent is
\* the status of the matching rent record ("none" when there is no record),
\* diffDays the day difference the handler computes for the due date.
DueTenant ==
  [id |-> "t1", email |-> "t1@x.com", propertyId |-> "p1",
   propertyFound |-> TRUE, diffDays |-> 3, rent |-> "none"]
DueRentTenant ==
  [id |-> "t2", email |-> "t2@x.com", propertyId |-> "p2",
   propertyFound |-> TRUE, diffDays |-> 0, rent |-> "pending"]
PaidTenant ==
  [id |-> "t3", email |-> "t3@x.com", propertyId |-> "p3",
   propertyFound |-> TRUE, diffDays |-> 1, rent |-> "paid"]
FutureTenant ==
  [id |-> "t4", email |-> "t4@x.com", propertyId |-> "p4",
   propertyFound |-> TRUE, diffDays |-> 5, rent |-> "none"]
NoPropertyTenant ==
  [id |-> "t5", email |-> "t5@x.com", propertyId |-> Undefined,
   propertyFound |-> FALSE, diffDays |-> 3, rent |-> "none"]
LostPropertyTenant ==
  [id |-> "t6", email |-> "t6@x.com", propertyId |-> "p6",
   propertyFound |-> FALSE, diffDays |-> 3, rent |-> "none"]

ManualTenant ==
  [id |-> "t7", email |-> "t7@x.com", propertyId |-> "p7",
   propertyFound |-> TRUE, diffDays |-> 7, rent |-> "manual"]
PastTenant ==
  [id |-> "t8", email |-> "t8@x.com", propertyId |-> "p8",
   propertyFound |-> TRUE, diffDays |-> -2, rent |-> "none"]

TenantKinds ==
  {DueTenant, DueRentTenant, PaidTenant, FutureTenant, NoPropertyTenant,
   LostPropertyTenant, ManualTenant, PastTenant}

\* what the query for active tenants may return
TenantLists == UNION {[1..n -> TenantKinds] : n \in 0..MaxTenants}

\* the key check of the reminder handler
ScanUnauthorized(key) ==
  ~scanEnv.isLocalDevTestEnv /\ key # scanEnv.AdminAuthorizedKey

Abs(n) == IF n < 0 THEN -n ELSE n

\* subject of the reminder the version builds for tenant t, "" when it
\* builds none; the awaiting version has the property and the rent record
\* in hand, the other one only promises of them
subjectOf(version, t) ==
  IF version = "functions/0010"
  THEN IF IF t.rent = "none"
          THEN includes(reminders, t.diffDays)
          ELSE includes(reminders, t.diffDays) /\ t.rent # "paid"
       THEN "Rent Reminder: Due in " \o ToString(t.diffDays) \o " day(s)"
       ELSE ""
  ELSE IF includes(reminders, t.diffDays)
       THEN "Rent Reminder: Due in " \o ToString(t.diffDays) \o " day(s)"
       ELSE IF t.diffDays > 0
       THEN "Rent Reminder: Overdue by " \o ToString(Abs(t.diffDays)) \o " day(s)"
       ELSE ""

\* the fetch pushed on emailPromises for tenant t
reminderFetch(version, t) ==
  [to |-> t.email, subject |-> subjectOf(version, t), state |-> "inflight"]

\* part_004's loop, which runs without suspending: the fetches it pushes
RECURSIVE detachedLoop(_)
detachedLoop(ts) ==
  IF Len(ts) = 0 THEN << >>
  ELSE (IF Truthy(Head(ts).propertyId) /\ subjectOf("part_004", Head(ts)) # ""
        THEN << reminderFetch("part_004", Head(ts)) >> ELSE << >>)
       \o detachedLoop(Tail(ts))

\* the number of tenants part_004 issues its two queries for
queried(ts) == Cardinality({i \in DOMAIN ts : Truthy(ts[i].propertyId)})

processedBody(version, n, m) ==
  "Processed " \o ToString(n) \o " tenants, sent " \o ToString(m)
    \o " reminders." \o (IF version = "part_004" THEN "\n" ELSE "")

Response(code, body) == [statusCode |-> code, body |-> body]

\* Promise.allSettled(emailPromises) once the loop is over: with nothing to
\* wait for the handler goes on to its response
afterLoop(sc) ==
  IF Len(sc.emails) = 0
  THEN [sc EXCEPT !.pc = "done",
                  !.response = << Response(200,
                                   processedBody(sc.version, Len(tenants'), 0)) >>]
  ELSE [sc EXCEPT !.pc = "settling"]

\* A scan request arrives and the handler runs up to the point where it
\* first waits for something that can be overtaken: in functions/0010 the
\* tenants query, in part_004 the collective wait for the emails.  ts is
\* the result of the tenants query, dbOk whether Firestore answers it.
ScanStart(version, key, ts, dbOk) ==
  LET sc == [IdleScan EXCEPT !.version = version, !.key = key] IN
  /\ scan.pc = "idle"
  /\ IF ScanUnauthorized(key)
     THEN /\ scan' = [sc EXCEPT !.pc = "done",
                                !.response = << Response(401, "Unauthorized") >>]
          /\ tenants' = tenants
     ELSE IF ~dbOk
     THEN /\ scan' = [sc EXCEPT !.pc = "done", !.reads = 1,
                                !.response = << Response(500, "Error: unavailable") >>]
          /\ tenants' = tenants
     ELSE IF version = "functions/0010"
     THEN /\ tenants' = ts
          /\ scan' = IF Len(ts) = 0
                     THEN afterLoop([sc EXCEPT !.reads = 1])
                     ELSE [sc EXCEPT !.pc = "loop", !.next = 1, !.reads = 1]
     ELSE /\ tenants' = ts
          /\ scan' = afterLoop([sc EXCEPT !.reads = 1 + 2 * queried(ts),
                                          !.next = Len(ts) + 1,
                                          !.emails = detachedLoop(ts)])
  /\ UNCHANGED <<env, store, calls, scanEnv, webhookVars>>

\* functions/0010: one turn of the loop, for tenant scan.next: the property
\* query, the rent query and the push of the reminder fetch
ScanTenant(dbOk) ==
  LET t    == tenants[scan.next]
      sent == IF subjectOf(scan.version, t) # ""
              THEN Append(scan.emails, reminderFetch(scan.version, t))
              ELSE scan.emails
  IN
  /\ scan.pc = "loop"
  /\ tenants' = tenants
  /\ IF ~Truthy(t.propertyId)
     THEN scan' = [scan EXCEPT !.pc = "done",
                     !.response = << Response(500, "Error: invalid query value") >>]
     ELSE IF ~dbOk
     THEN scan' = [scan EXCEPT !.pc = "done", !.reads = @ + 1,
                     !.response = << Response(500, "Error: unavailable") >>]
     ELSE IF ~t.propertyFound
     THEN scan' = [scan EXCEPT !.pc = "done", !.reads = @ + 1,
                     !.response = << Response(500,
                                      "Error: unable to find selected property") >>]
     ELSE IF scan.next = Len(tenants)
     THEN scan' = afterLoop([scan EXCEPT !.reads = @ + 2, !.next = @ + 1,
                                         !.emails = sent])
     ELSE scan' = [scan EXCEPT !.reads = @ + 2, !.next = @ + 1, !.emails = sent]
  /\ UNCHANGED <<env, store, calls, scanEnv, webhookVars>>

\* The fetch of reminder j settles.  While functions/0010 is still in its
\* loop nothing handles the promise yet: a rejection is an unhandled one,
\* which ends the process unless the runtime only warns.
ScanEmailSettle(j, outcome) ==
  /\ scan.pc \in {"loop", "settling", "done"}
  /\ scan.emails[j].state = "inflight"
  /\ scan' = [scan EXCEPT
       !.emails[j].state = outcome,
       !.pc = IF outcome = "rejected" /\ scan.pc = "loop"
                 /\ scanEnv.unhandledRejections = "throw"
              THEN "crashed" ELSE @,
       !.cause = IF outcome = "rejected" /\ scan.pc = "loop"
                    /\ scanEnv.unhandledRejections = "throw"
                 THEN "email" ELSE @]
  /\ UNCHANGED <<env, store, calls, scanEnv, tenants, webhookVars>>

\* part_004: the promise of an un-awaited fetchPropertyDetails rejects
\* because the property is not found; nothing ever handles it
ScanLookupReject ==
  /\ scan.pc = "settling"
  /\ scan.version = "part_004"
  /\ scanEnv.unhandledRejections = "throw"
  /\ \E i \in DOMAIN tenants :
       Truthy(tenants[i].propertyId) /\ ~tenants[i].propertyFound
  /\ scan' = [scan EXCEPT !.pc = "crashed", !.cause = "lookup"]
  /\ UNCHANGED <<env, store, calls, scanEnv, tenants, webhookVars>>

\* Promise.allSettled resolves once every fetch has settled; the handler
\* logs each result and returns its count
ScanFinish ==
  /\ scan.pc = "settling"
  /\ \A j \in DOMAIN scan.emails : scan.emails[j].state # "inflight"
  /\ scan' = [scan EXCEPT !.pc = "done",
       !.response = << Response(200, processedBody(scan.version, Len(tenants),
                                                   Len(scan.emails))) >>]
  /\ UNCHANGED <<env, store, calls, scanEnv, tenants, webhookVars>>

\* DEV_ENV and the runtime's treatment of unhandled rejections vary with
\* the deployment; ADMIN_KEY is configured
InitScan ==
  /\ env = [isLocalDevTestEnv |-> Undefined, AdminAuthorizedKey |-> "admin-key"]
  /\ clock = 0
  /\ store = [c \in Collections |-> << >>]
  /\ deliveries = << >>
  /\ calls = << >>
  /\ scanEnv \in [isLocalDevTestEnv : BOOLEAN,
                  AdminAuthorizedKey : {"admin-key"},
                  unhandledRejections : {"throw", "warn"}]
  /\ tenants = << >>
  /\ scan = IdleScan

NextScan ==
  \/ \E v \in Versions, key \in Keys, ts \in TenantLists, dbOk \in BOOLEAN :
       ScanStart(v, key, ts, dbOk)
  \/ \E dbOk \in BOOLEAN : ScanTenant(dbOk)
  \/ \E j \in DOMAIN scan.emails, o \in {"fulfilled", "rejected"} :
       ScanEmailSettle(j, o)
  \/ ScanLookupReject
  \/ ScanFinish

SpecScan == InitScan /\ [][NextScan]_vars

(***************************************************************************)
(* Both internal endpoints under every combination of deployment mode and  *)
(* request key, with one payload of each kind.                             *)
(***************************************************************************)
AuthBodies == { << TenantRecord >>, << BareRecord >> }
AuthTenantLists == { << DueTenant >> }

InitAuth ==
  /\ env \in [isLocalDevTestEnv : {Undefined, "true"},
              AdminAuthorizedKey : {"admin-key", Undefined}]
  /\ clock = 0
  /\ store = [c \in Collections |-> << >>]
  /\ deliveries = << >>
  /\ calls = << >>
  /\ scanEnv \in [isLocalDevTestEnv : BOOLEAN,
                  AdminAuthorizedKey : {"admin-key", Undefined},
                  unhandledRejections : {"throw"}]
  /\ tenants = << >>
  /\ scan = IdleScan

NextAuth ==
  \/ \E key \in Keys, body \in AuthBodies : DirectUpdate(key, body, TRUE)
  \/ \E c \in Cs, o \in {"ok", "notok", "error"} : DirectEmailSettle(c, o)
  \/ \E v \in Versions, key \in Keys, ts \in AuthTenantLists :
       ScanStart(v, key, ts, TRUE)
  \/ ScanTenant(TRUE)
  \/ \E j \in DOMAIN scan.emails, o \in {"fulfilled", "rejected"} :
       ScanEmailSettle(j, o)
  \/ ScanFinish

SpecAuth == InitAuth /\ [][NextAuth]_vars

(***************************************************************************)
(* Vocabulary of the properties.                                           *)
(***************************************************************************)
Ds == 1..Len(deliveries)

Verified(i) == Len(deliveries[i].event) = 1
EventOf(i) == deliveries[i].event[1]
Posted(i) == Len(deliveries[i].request) = 1
BodyOf(i) == deliveries[i].request[1].body
Wrote(i) == Len(deliveries[i].wrote) = 1
WroteAt(i, c, k) ==
  Wrote(i) /\ deliveries[i].wrote[1] = [collection |-> c, key |-> k]
Emailed(i) == Len(deliveries[i].email) = 1

\* the deliveries whose record was merged into document k of collection c
Writers(c, k) == {i \in Ds : WroteAt(i, c, k)}

SameEvent(W) == \A i, j \in W : EventOf(i) = EventOf(j)

Earliest(W) == CHOOSE i \in W : \A j \in W : i <= j
Latest(W) == CHOOSE i \in W : \A j \in W : j <= i

\* the payload of delivery i has a metadata object with at least one entry
NonEmptyMetadata(i) ==
  /\ "metadata" \in DOMAIN EventOf(i).object
  /\ DOMAIN EventOf(i).object["metadata"] # {}

\* delivery i is a checkout-session event whose metadata names the tenant
TenantSession(i) ==
  /\ EventOf(i).type \in CheckoutTypes
  /\ "metadata" \in DOMAIN EventOf(i).object
  /\ Truthy(Get(EventOf(i).object["metadata"], "tenantId"))

(***************************************************************************)
(* C1  Idempotency.  When one event has been delivered N >= 1 times and no *)
(* other event was written at its key, the document stored at the key      *)
(* equals the document stored by the first delivery alone: no field value  *)
(* differs between N = 1 and N > 1.                                        *)
(***************************************************************************)
C1_Idempotency ==
  \A c \in Collections : \A k \in DOMAIN store[c] :
    LET W == Writers(c, k) IN
    (W # {} /\ SameEvent(W)) => store[c][k] = BodyOf(Earliest(W))

(***************************************************************************)
(* C2  Partition routing.  As claimed: a verified event whose payload has  *)
(* non-empty metadata is written only to "rents", one without metadata     *)
(* only to "rentalPayments".                                               *)
(***************************************************************************)
C2_RoutingByMetadata ==
  \A i \in Ds : Wrote(i) =>
    deliveries[i].wrote[1].collection =
      (IF NonEmptyMetadata(i) THEN "rents" ELSE "rentalPayments")

\* C2 as amended: the record of a verified event is written to "rents"
\* exactly when the event is a checkout-session event whose metadata carries a
\* non-empty tenantId, and to "rentalPayments" otherwise; every document of a
\* collection was written there by such a delivery, at the delivery's one key.
C2_RoutingByTenant ==
  /\ \A i \in Ds : Wrote(i) =>
       /\ Verified(i)
       /\ deliveries[i].wrote[1].collection =
            (IF TenantSession(i) THEN "rents" ELSE "rentalPayments")
  /\ \A c \in Collections : \A k \in DOMAIN store[c] : Writers(c, k) # {}

\* a session with foreign metadata landed in "rentalPayments" while a session
\* of a tenant landed in "rents"
C2_Witness ==
  \E i, j \in Ds :
    /\ Wrote(i) /\ Wrote(j)
    /\ EventOf(i).type \in CheckoutTypes /\ NonEmptyMetadata(i) /\ ~TenantSession(i)
    /\ deliveries[i].wrote[1].collection = "rentalPayments"
    /\ TenantSession(j) /\ deliveries[j].wrote[1].collection = "rents"

(***************************************************************************)
(* C3  Identifier selection.  The key written for a charge event is the    *)
(* payload's payment_intent and not its id; for a payment-intent event it  *)
(* is the payload's id; for a checkout-session event with metadata it is   *)
(* the payload's payment_intent.                                           *)
(***************************************************************************)
C3_IdentifierSelection ==
  \A i \in Ds : Wrote(i) =>
    LET e == EventOf(i)
        k == deliveries[i].wrote[1].key
    IN
    /\ e.type \in ChargeTypes =>
         k = Get(e.object, "payment_intent") /\ k # Get(e.object, "id")
    /\ e.type \in PaymentIntentTypes => k = Get(e.object, "id")
    /\ (e.type \in CheckoutTypes /\ "metadata" \in DOMAIN e.object) =>
         k = Get(e.object, "payment_intent")

\* a charge and a payment intent have both been written
C3_Witness ==
  \E i, j \in Ds :
    /\ Wrote(i) /\ EventOf(i).type \in ChargeTypes
    /\ Wrote(j) /\ EventOf(j).type \in PaymentIntentTypes

(***************************************************************************)
(* C4  Signature gate.  A request whose signature is invalid or missing is *)
(* answered 400 "Webhook Error: <message>"; the classifier and updateDb    *)
(* are not invoked, no update-payment request is issued, and nothing in    *)
(* the store comes from it.                                                *)
(***************************************************************************)
C4_SignatureGate ==
  /\ \A i \in Ds : deliveries[i].sig # ValidSig =>
       LET d == deliveries[i] IN
       /\ d.response.statusCode = 400
       /\ d.response.body \in
            {"Webhook Error: " \o constructEvent(b, d.sig).message : b \in Events}
       /\ ~d.classified
       /\ d.recorder = "notcalled"
       /\ ~Posted(i) /\ ~Wrote(i) /\ ~Emailed(i)
  /\ \A c \in Collections : \A k \in DOMAIN store[c] :
       \E i \in Writers(c, k) : deliveries[i].sig = ValidSig

\* a request with a missing or bad signature was rejected after a document
\* had been stored
C4_Witness ==
  \E i, j \in Ds :
    /\ i < j /\ Wrote(i)
    /\ deliveries[j].sig # ValidSig /\ deliveries[j].response.statusCode = 400

(***************************************************************************)
(* C5  Unknown event types.  A verified event whose type is none of the    *)
(* ten recognized ones is answered 200; updateDb is not called, no         *)
(* update-payment request is issued and no document is written for it.     *)
(***************************************************************************)
C5_UnknownTypeSkipped ==
  \A i \in Ds : (Verified(i) /\ EventOf(i).type \notin RecognizedTypes) =>
    LET d == deliveries[i] IN
    /\ d.response.statusCode = 200
    /\ d.classified
    /\ d.recorder = "notcalled"
    /\ ~Posted(i) /\ ~Wrote(i) /\ ~Emailed(i)
    /\ d.pc = "done"

\* customer.created was delivered after a document had been stored
C5_Witness ==
  \E i, j \in Ds :
    /\ i < j /\ Wrote(i)
    /\ Verified(j) /\ EventOf(j).type = "customer.created"

(***************************************************************************)
(* C6  Every request whose signature verifies is answered                  *)
(* 200 {"received": true}, whatever the event type and whatever became or  *)
(* becomes of the persistence call; the response is there while the call   *)
(* is still pending.                                                       *)
(***************************************************************************)
C6_AlwaysReceived ==
  \A i \in Ds : Verified(i) =>
    deliveries[i].response = [statusCode |-> 200, body |-> "{\"received\":true}"]

\* one verified delivery is acknowledged with its persistence call pending,
\* another after updateDb had already failed in its catch
C6_Witness ==
  \E i, j \in Ds :
    /\ Verified(i) /\ deliveries[i].pc = "posted"
    /\ deliveries[i].recorder = "pending"
    /\ deliveries[i].response.statusCode = 200
    /\ Verified(j) /\ ~Posted(j) /\ deliveries[j].recorder = "false"
    /\ deliveries[j].response.statusCode = 200

(***************************************************************************)
(* C7  Merge never erases.  No step removes a document, and every field    *)
(* present in a stored document is still present after the step.           *)
(***************************************************************************)
C7_MergeNeverErases ==
  [][\A c \in Collections : \A k \in DOMAIN store[c] :
       /\ k \in DOMAIN store'[c]
       /\ DOMAIN store[c][k] \subseteq DOMAIN store'[c][k]]_vars

\* the document of pi_1 in "rentalPayments" was last written by the bare
\* payment-intent event and still holds the field paymentMethodType that only
\* the richer checkout-session record carried
C7_Witness ==
  /\ "pi_1" \in DOMAIN store["rentalPayments"]
  /\ store["rentalPayments"]["pi_1"]["stripeEventType"] = "payment_intent.succeeded"
  /\ "paymentMethodType" \in DOMAIN store["rentalPayments"]["pi_1"]

(***************************************************************************)
(* C8  Convergence under concurrency.  When the same event was delivered   *)
(* two or more times and all its writes are done, the document at its key  *)
(* is the same whatever the order in which the writes arrived: it is the   *)
(* document that arrival in delivery order produces.                       *)
(***************************************************************************)
C8_Convergence ==
  \A c \in Collections : \A k \in DOMAIN store[c] :
    LET W == Writers(c, k) IN
    (/\ Cardinality(W) >= 2
     /\ SameEvent(W)
     /\ \A i \in W : deliveries[i].pc = "done")
      => store[c][k] = BodyOf(Latest(W))

(***************************************************************************)
(* C9  Notification gating.  As claimed: the update-payment handler issues *)
(* an email request iff the record it received carries metadata fields; a  *)
(* payment-intent or charge event causes none, and a checkout-session      *)
(* event with metadata causes exactly one per delivery.  The claim is read *)
(* in its favour, over the deliveries whose record the handler has merged. *)
(***************************************************************************)
MetadataFields ==
  {"tenantId", "tenantEmail", "propertyId", "propertyOwnerId", "rentMonth",
   "rentAmount", "additionalCharges", "initialLateFee", "dailyLateFee",
   "paymentMethodType", "createdBy", "updatedBy"}

C9_GatingByMetadata ==
  \A i \in Ds :
    /\ Wrote(i) =>
         (Emailed(i) <=> (DOMAIN BodyOf(i) \cap MetadataFields # {}))
    /\ (Verified(i) /\ EventOf(i).type \in PaymentIntentTypes \cup ChargeTypes) =>
         ~Emailed(i)
    /\ (Wrote(i) /\ EventOf(i).type \in CheckoutTypes /\ NonEmptyMetadata(i)) =>
         Emailed(i)

\* C9 as amended: an email request is issued for a delivery exactly when the
\* update-payment handler merged its record and the record carries a non-empty
\* createdBy; a payment-intent or charge event causes none; a delivery never
\* causes more than one.
C9_GatingByCreatedBy ==
  \A i \in Ds :
    /\ Emailed(i) <=> (Wrote(i) /\ Truthy(Get(BodyOf(i), "createdBy")))
    /\ (Verified(i) /\ EventOf(i).type \in PaymentIntentTypes \cup ChargeTypes) =>
         ~Emailed(i)
    /\ Len(deliveries[i].email) <= 1

\* a tenant's checkout session caused an email and a payment-intent event
\* was written without one
C9_Witness ==
  \E i, j \in Ds :
    /\ Wrote(i) /\ TenantSession(i) /\ Emailed(i)
    /\ Wrote(j) /\ EventOf(j).type \in PaymentIntentTypes /\ ~Emailed(j)
    /\ deliveries[j].pc = "done"

(***************************************************************************)
(* C10  Notification recipient.  The email request issued for a checkout   *)
(* session has its "to" field equal to the tenant's email address carried  *)
(* by the session's metadata.                                              *)
(***************************************************************************)
C10_Recipient ==
  \A i \in Ds : Emailed(i) =>
    Get(deliveries[i].email[1], "to") =
      Get(EventOf(i).object["metadata"], "customer_email")

(***************************************************************************)
(* C11  Email failure isolation.  When the email-send request of a         *)
(* metadata-bearing record ends without success, the webhook's response    *)
(* for that event is still 200 and the step leaves the store as it was:    *)
(* the record written before the email attempt stays at its key.           *)
(***************************************************************************)
C11_EmailFailureIsolated ==
  [][\A i \in Ds :
       (/\ deliveries[i].pc = "emailing"
        /\ deliveries'[i].pc = "done"
        /\ deliveries'[i].update # << Returned(200, [success |-> TRUE,
                                                     id |-> deliveries[i].wrote[1].key]) >>)
         => /\ store' = store
            /\ deliveries[i].wrote[1].key
                 \in DOMAIN store'[deliveries[i].wrote[1].collection]
            /\ deliveries'[i].response.statusCode = 200]_vars

\* the email collaborator answered with a non-success response and the
\* tenant's record is in "rents"
C11_Witness ==
  \E i \in Ds :
    /\ deliveries[i].emailDone
    /\ deliveries[i].update = << ReturnedUndefined >>
    /\ WroteAt(i, "rents", "pi_1")
    /\ "pi_1" \in DOMAIN store["rents"]
    /\ deliveries[i].response.statusCode = 200

(***************************************************************************)
(* C12  Whenever the merge-write of the update-payment handler succeeded,  *)
(* the handler has responded 200 {"success": true, "id": <documentKey>}    *)
(* once it is done, also when the email call failed.                       *)
(***************************************************************************)
C12_SuccessResponse ==
  \A i \in Ds : (Wrote(i) /\ deliveries[i].pc = "done") =>
    deliveries[i].update =
      << Returned(200, [success |-> TRUE, id |-> deliveries[i].wrote[1].key]) >>

(***************************************************************************)
(* C14  Internal failure of the update-payment handler.  As claimed: when  *)
(* computing the document reference or the merge-write raises, the handler *)
(* returns a response with status 500.                                     *)
(***************************************************************************)
C14_Returns500 ==
  \A i \in Ds :
    (Posted(i) /\ Len(deliveries[i].update) = 1 /\ ~Wrote(i)
       /\ ~Unauthorized(deliveries[i].request[1].key)) =>
      /\ deliveries[i].update[1].kind = "returned"
      /\ deliveries[i].update[1].statusCode = 500

\* C14 as amended: when computing the document reference or the merge-write
\* raises, the handler returns no response of its own: it rethrows, nothing
\* is written and no email is requested; the only responses it returns are 200
\* and 401.  A record without a usable identifier always ends this way.
C14_RaisesRethrown ==
  \A i \in Ds : (Posted(i) /\ Len(deliveries[i].update) = 1) =>
    LET u  == deliveries[i].update[1]
        id == Get(BodyOf(i), "stripePaymentIntentID")
    IN
    /\ u.kind = "returned" => u.statusCode \in {200, 401}
    /\ (~Unauthorized(deliveries[i].request[1].key)
          /\ id \in {Undefined, Null, ""}) =>
         (u = Thrown /\ ~Wrote(i) /\ ~Emailed(i))
    /\ (u = Thrown /\ ~deliveries[i].emailDone) => (~Wrote(i) /\ ~Emailed(i))
    /\ Wrote(i) => deliveries[i].wrote[1].key \notin {Undefined, Null, ""}

\* a charge without payment_intent made doc() raise, and Firestore refused
\* the write of a record with a valid identifier
C14_Witness ==
  \E i, j \in Ds :
    /\ Posted(i) /\ Get(BodyOf(i), "stripePaymentIntentID") = Null
    /\ deliveries[i].update = << Thrown >>
    /\ Posted(j) /\ Get(BodyOf(j), "stripePaymentIntentID") = "pi_1"
    /\ deliveries[j].update = << Thrown >> /\ ~Wrote(j)

(***************************************************************************)
(* C15  Result of the recorder.  updateDb's result signals failure only    *)
(* when the downstream write failed: a delivery whose record was written   *)
(* does not end with the failure result.                                   *)
(***************************************************************************)
C15_FailureOnlyOnFailedWrite ==
  \A i \in Ds : deliveries[i].recorder = "false" => ~Wrote(i)

(***************************************************************************)
(* C16  Eventual persistence.  The provider redelivers an event only as    *)
(* long as it has not seen it acknowledged with a 2xx response, and the    *)
(* system does not retry.  So once nothing is pending for an event and     *)
(* every delivery of it was acknowledged 2xx, its record must be stored.   *)
(***************************************************************************)
C16_PersistedWhenAcknowledged ==
  \A i \in Ds :
    (/\ Verified(i) /\ Posted(i)
     /\ ValidDocPath(Get(BodyOf(i), "stripePaymentIntentID"))
     /\ \A j \in Ds : (Verified(j) /\ EventOf(j) = EventOf(i)) =>
          /\ deliveries[j].pc = "done"
          /\ deliveries[j].response.statusCode \in 200..299)
      => \E j \in Ds : Verified(j) /\ EventOf(j) = EventOf(i) /\ Wrote(j)

(***************************************************************************)
(* C17  Step ordering.  The classifier and the recorder run only for a     *)
(* request whose signature verified; the email request of a record is      *)
(* issued only once the record has been merged at its key; a delivery      *)
(* whose write failed has no email request.                                *)
(***************************************************************************)
C17_StepOrdering ==
  \A i \in Ds :
    /\ (deliveries[i].classified \/ deliveries[i].recorder # "notcalled" \/ Posted(i))
         => (deliveries[i].sig = ValidSig /\ Verified(i))
    /\ Emailed(i) =>
         /\ Wrote(i)
         /\ deliveries[i].wrote[1].key
              \in DOMAIN store[deliveries[i].wrote[1].collection]
    /\ (Len(deliveries[i].update) = 1 /\ ~Wrote(i)) => ~Emailed(i)

\* one tenant session is written with its email request out, another one
\* failed to be written and has none
C17_Witness ==
  \E i, j \in Ds :
    /\ Wrote(i) /\ TenantSession(i) /\ Emailed(i)
    /\ Posted(j) /\ TenantSession(j) /\ deliveries[j].update = << Thrown >>
    /\ ~Wrote(j) /\ ~Emailed(j)

(***************************************************************************)
(* C20  The internal call is authorized in every deployment mode: the      *)
(* request updateDb issues is never answered 401 by the update-payment     *)
(* handler.                                                                *)
(***************************************************************************)
C20_InternalCallAuthorized ==
  \A i \in Ds : (Posted(i) /\ Len(deliveries[i].update) = 1) =>
    ~(/\ deliveries[i].update[1].kind = "returned"
      /\ deliveries[i].update[1].statusCode = 401)

(***************************************************************************)
(* Direct requests to the update-payment endpoint.                         *)
(***************************************************************************)
\* the handler passed the key check for call c
Accepted(c) ==
  ~(Len(calls[c].update) = 1 /\ calls[c].update[1].kind = "returned"
      /\ calls[c].update[1].statusCode = 401)

\* the partition the record of call c belongs to, read off its createdBy
PartitionOf(c) ==
  IF Get(calls[c].body[1], "createdBy") \notin {Undefined, Null, ""}
  THEN "rents" ELSE "rentalPayments"

\* every stored document was written by a call that recorded it
StoreFromCalls ==
  \A coll \in Collections :
    DOMAIN store[coll] =
      {calls[c].wrote[1].key :
         c \in {x \in Cs : Len(calls[x].wrote) = 1
                            /\ calls[x].wrote[1].collection = coll}}

(***************************************************************************)
(* C19  Partition selection, as claimed: each accepted request writes      *)
(* exactly one document, in "rents" iff createdBy is non-empty and in      *)
(* "rentalPayments" otherwise.                                             *)
(***************************************************************************)
C19_ExactlyOneDocument ==
  \A c \in Cs : Accepted(c) =>
    /\ Len(calls[c].wrote) = 1
    /\ calls[c].wrote[1].collection = PartitionOf(c)

\* C19 as amended: each accepted request writes at most one document, and
\* exactly one when its body parses, its stripePaymentIntentID is a non-empty
\* string and Firestore accepts the write; that document is stored under the
\* identifier in "rents" iff createdBy is non-empty and in "rentalPayments"
\* otherwise, and nothing else is stored by the request.
C19_PartitionSelection ==
  /\ StoreFromCalls
  /\ \A c \in Cs :
       /\ Len(calls[c].wrote) <= 1
       /\ Len(calls[c].wrote) = 1 =>
            /\ Accepted(c)
            /\ calls[c].wrote[1] =
                 [collection |-> PartitionOf(c),
                  key |-> calls[c].body[1].stripePaymentIntentID]
       /\ (/\ Accepted(c) /\ Len(calls[c].body) = 1 /\ calls[c].dbOk
           /\ Get(calls[c].body[1], "stripePaymentIntentID")
                \notin {Undefined, Null, ""})
            => Len(calls[c].wrote) = 1

\* a record with createdBy went to "rents" and one with an empty createdBy
\* to "rentalPayments", each leaving the other partition as it was
C19_Witness ==
  \E c, d \in Cs :
    /\ calls[c].body = << TenantRecord >>
    /\ calls[c].wrote = << [collection |-> "rents", key |-> "pi_1"] >>
    /\ calls[d].body = << EmptyCreatedByRecord >>
    /\ calls[d].wrote = << [collection |-> "rentalPayments", key |-> "pi_2"] >>
    /\ DOMAIN store["rents"] = {"pi_1"}
    /\ DOMAIN store["rentalPayments"] = {"pi_2"}

(***************************************************************************)
(* Reminder scans.                                                         *)
(***************************************************************************)
\* the tenants the scan's version builds a reminder for
Reminded ==
  {i \in DOMAIN tenants :
     /\ subjectOf(scan.version, tenants[i]) # ""
     /\ scan.version = "part_004" => Truthy(tenants[i].propertyId)}

\* the scan ended with nothing but email requests having failed
OnlyEmailsFailed ==
  /\ scan.pc \in {"done", "crashed"}
  /\ \E j \in DOMAIN scan.emails : scan.emails[j].state = "rejected"
  /\ scan.cause # "lookup"
  /\ Len(scan.response) = 1 => scan.response[1].statusCode # 500

(***************************************************************************)
(* C18  Reminder fan-out isolation.  When a tenant's email request is      *)
(* rejected and nothing else fails, the email requests of all the tenants  *)
(* due a reminder are still issued and settled, and the handler returns    *)
(* 200 with the number of tenants processed and of reminders sent.         *)
(***************************************************************************)
C18_FanOutIsolation ==
  OnlyEmailsFailed =>
    /\ scan.pc = "done"
    /\ Len(scan.emails) = Cardinality(Reminded)
    /\ \A j \in DOMAIN scan.emails : scan.emails[j].state # "inflight"
    /\ scan.response =
         << Response(200, processedBody(scan.version, Len(tenants),
                                        Len(scan.emails))) >>

(***************************************************************************)
(* C13  Authorization failure.  A request to update-payment or to the      *)
(* reminder scan whose key is missing or differs from the admin key, in    *)
(* the key-enforcing mode, is answered 401 "Unauthorized" and has no side  *)
(* effect: no document written, no database query, no email request.       *)
(***************************************************************************)
C13_Unauthorized401 ==
  /\ StoreFromCalls
  /\ \A c \in Cs :
       (~Truthy(env.isLocalDevTestEnv) /\ calls[c].key # env.AdminAuthorizedKey) =>
         /\ Len(calls[c].update) = 1
         /\ calls[c].update[1].kind = "returned"
         /\ calls[c].update[1].statusCode = 401
         /\ calls[c].update[1].body = "Unauthorized"
         /\ calls[c].wrote = << >>
         /\ calls[c].email = << >>
         /\ calls[c].pc = "done"
  /\ (/\ scan.pc # "idle"
      /\ ~scanEnv.isLocalDevTestEnv
      /\ scan.key # scanEnv.AdminAuthorizedKey) =>
         /\ scan.pc = "done"
         /\ scan.response = << Response(401, "Unauthorized") >>
         /\ scan.reads = 0
         /\ scan.emails = << >>

\* a request without key and one with a wrong key were turned away by
\* update-payment, and a scan request with a wrong key by the reminder
\* handler, all three in the key-enforcing mode
C13_Witness ==
  /\ ~Truthy(env.isLocalDevTestEnv) /\ env.AdminAuthorizedKey = "admin-key"
  /\ ~scanEnv.isLocalDevTestEnv /\ scanEnv.AdminAuthorizedKey = "admin-key"
  /\ \E c, d \in Cs :
       /\ calls[c].key = Undefined /\ calls[d].key = "wrong-key"
       /\ calls[c].update[1].statusCode = 401
       /\ calls[d].update[1].statusCode = 401
  /\ scan.key = "wrong-key"
  /\ scan.response = << Response(401, "Unauthorized") >>
  /\ store = [c \in Collections |-> << >>]

(***************************************************************************)
(* C23  Status follows delivery order.  Of the deliveries that have        *)
(* written a document, the one the webhook handler received last decides   *)
(* the stored status and stripeEventType: a delivery acknowledged earlier  *)
(* never overwrites a later one.                                           *)
(***************************************************************************)
C23_StatusFollowsDeliveryOrder ==
  \A c \in Collections : \A k \in DOMAIN store[c] :
    Writers(c, k) # {} =>
      /\ Get(store[c][k], "status") = Get(BodyOf(Latest(Writers(c, k))), "status")
      /\ Get(store[c][k], "stripeEventType")
           = Get(BodyOf(Latest(Writers(c, k))), "stripeEventType")

(***************************************************************************)
(* C24  No document under an absent key.  Every document of "rents" and    *)
(* "rentalPayments" is stored under a non-empty payment-intent identifier  *)
(* equal to its own stripePaymentIntentID; a record whose identifier is    *)
(* missing, null or empty never produces a document.                       *)
(***************************************************************************)
C24_NoAbsentKey ==
  /\ \A c \in Collections : \A k \in DOMAIN store[c] :
       /\ k \notin {Undefined, Null, ""}
       /\ Get(store[c][k], "stripePaymentIntentID") = k
  /\ \A i \in Ds :
       (Posted(i) /\ Get(BodyOf(i), "stripePaymentIntentID") \in {Undefined, Null, ""})
         => ~Wrote(i)

\* the record of a charge without payment_intent was posted and its handler
\* ran without writing, while another record is stored under its identifier
C24_Witness ==
  /\ \E i \in Ds :
       /\ Posted(i) /\ Get(BodyOf(i), "stripePaymentIntentID") = Null
       /\ deliveries[i].update = << Thrown >>
       /\ ~Wrote(i)
  /\ "pi_1" \in DOMAIN store["rentalPayments"]
  /\ store["rentalPayments"]["pi_1"].stripePaymentIntentID = "pi_1"

(***************************************************************************)
(* C25  Malformed metadata-bearing payload.  For a verified checkout       *)
(* session event that carries metadata but no payment_method_options,      *)
(* updateDb issues no update-payment request, no document is written, no   *)
(* email is requested, updateDb returns its failure result, and the        *)
(* webhook response is 200.                                                *)
(***************************************************************************)
MalformedSession(i) ==
  /\ Verified(i)
  /\ EventOf(i).type \in CheckoutTypes
  /\ "metadata" \in DOMAIN EventOf(i).object
  /\ "payment_method_options" \notin DOMAIN EventOf(i).object

C25_MalformedMetadataPayload ==
  \A i \in Ds : MalformedSession(i) =>
    /\ ~Posted(i)
    /\ ~Wrote(i)
    /\ ~Emailed(i)
    /\ deliveries[i].update = << >>
    /\ deliveries[i].recorder = "false"
    /\ deliveries[i].pc = "done"
    /\ deliveries[i].response = [statusCode |-> 200, body |-> "{\"received\":true}"]

\* such a session was delivered after another delivery had stored a
\* document, which is all the store holds
C25_Witness ==
  \E i, j \in Ds :
    /\ j < i
    /\ MalformedSession(i)
    /\ deliveries[i].recorder = "false"
    /\ deliveries[i].response.statusCode = 200
    /\ WroteAt(j, "rents", "pi_1")
    /\ DOMAIN store["rentalPayments"] = {}

(***************************************************************************)
(* C21  Paid rent gets no reminder.  No reminder email request of a scan   *)
(* goes to a tenant whose matching rent record has the status "paid", nor, *)
(* in part_004 (which documents it), the status "manual".                  *)
(***************************************************************************)
\* the tenants reminder j of the scan is addressed to
Addressees(j) ==
  {i \in DOMAIN tenants : tenants[i].email = scan.emails[j].to}

C21_PaidGetsNoReminder ==
  \A j \in DOMAIN scan.emails : \A i \in Addressees(j) :
    /\ tenants[i].rent # "paid"
    /\ scan.version = "part_004" => tenants[i].rent # "manual"

(***************************************************************************)
(* C22  Due versus overdue reminders.  A "Due in N day(s)" reminder goes   *)
(* out only when the day difference to the due date is 7, 3, 1 or 0, and   *)
(* an "Overdue by N day(s)" reminder only when the due date lies before    *)
(* today (negative day difference).                                        *)
(***************************************************************************)
C22_DueVersusOverdue ==
  \A j \in DOMAIN scan.emails : \A i \in Addressees(j) :
    LET d == tenants[i].diffDays IN
    /\ scan.emails[j].subject
         \in {"Rent Reminder: Due in " \o ToString(d) \o " day(s)",
              "Rent Reminder: Overdue by " \o ToString(Abs(d)) \o " day(s)"}
    /\ scan.emails[j].subject = "Rent Reminder: Due in " \o ToString(d) \o " day(s)"
         => d \in {7, 3, 1, 0}
    /\ scan.emails[j].subject
         = "Rent Reminder: Overdue by " \o ToString(Abs(d)) \o " day(s)"
         => d < 0

(***************************************************************************)
(* C26  Reminder run settles before responding.  Once the handler of a     *)
(* scan has returned its response, with whatever status, no email request  *)
(* of that scan is still in flight.                                        *)
(***************************************************************************)
C26_SettledBeforeResponse ==
  Len(scan.response) = 1 =>
    \A j \in DOMAIN scan.emails : scan.emails[j].state # "inflight"

====
